---- MODULE Spec2Model ----
(***************************************************************************)
(* Order execution and portfolio accounting of the BajajTrade backend      *)
(* (src/backend/main.py, order_manager.py, price_simulator.py, and the    *)
(* price services of sdk.py).                                              *)
(*                                                                         *)
(* Scheduling.  place_order is an `async def` endpoint: every submission   *)
(* runs as a task of the one event loop, so two submissions interleave     *)
(* only at the `await asyncio.sleep(0.1)` of execute_market_order.         *)
(* cancel_order is a plain `def` endpoint: the framework runs it on a      *)
(* worker thread, concurrently with the event loop.  The only field both   *)
(* sides write is order["status"], so the steps of a submission are cut    *)
(* exactly at its accesses to that field, and a cancel is cut between its  *)
(* status test and its status write.  The variable `loop` holds the id of  *)
(* the task that owns the event loop (0: idle).                            *)
(*                                                                         *)
(* Numbers.  Prices are floats in the source.  Here a price is an integer  *)
(* number of thirds of a cent, so that round(x, 2) is a real conversion    *)
(* that never meets a tie; averages and P&L are exact fractions <<n, d>>.  *)
(***************************************************************************)
EXTENDS Integers, Sequences, FiniteSets, TLC

VARIABLES
    orders,          \* db["orders"]: sequence of order records, index = orderId
    portfolio,       \* db["portfolio"]: symbol -> [quantity, avgPrice]
    trades,          \* db["trades"]: newest first
    total_pnl,       \* db["stats"]["total_pnl"], a fraction
    current_prices,  \* simulator.current_prices
    tasks,           \* per submission: position in place_order, locals, response
    loop,            \* the submission running on the event loop, 0 when idle
    cancelling,      \* cancel threads past the status test of cancel_order
    ncancel,         \* number of cancel requests received
    cancel_response, \* the cancel request the last step served, and its answer
    refusal,         \* the submission the last step refused, and its answer
    price_history,   \* simulator.price_history
    stepping,        \* per thread: its position in update_price and its locals
    nsteps           \* number of price steps begun

vars == <<orders, portfolio, trades, total_pnl, current_prices, tasks, loop,
          cancelling, ncancel, cancel_response, refusal, price_history, stepping,
          nsteps>>

ledger == <<orders, portfolio, trades, total_pnl>>

\* The order specifications follow the simulator's current prices only; its
\* history buffer and the threads inside update_price are followed in SpecPrice.
simulator_steps == <<price_history, stepping, nsteps>>

(***************************************************************************)
(* Bounds of the model.                                                    *)
(***************************************************************************)
MaxOrders == 3
MaxRacedOrders == 2
MaxCancels == 2
MaxSteps == 4

(***************************************************************************)
(* Values of the source.                                                   *)
(***************************************************************************)
None == -1
Now == 0
HistoryCap == 100

\* OrderStatus, OrderType and OrderStyle are the strings "NEW", "PLACED",
\* "EXECUTED", "CANCELLED", "BUY", "SELL", "MARKET", "LIMIT" of the source.
OrderStatus == {"NEW", "PLACED", "EXECUTED", "CANCELLED"}
OrderType == {"BUY", "SELL"}
OrderStyle == {"MARKET", "LIMIT"}

Symbols == {"AAPL", "TSLA", "IBM"}

\* 260.0, 430.0 and 295.0 dollars, in thirds of a cent
base_prices == [s \in Symbols |->
    CASE s = "AAPL" -> 78000 [] s = "TSLA" -> 129000 [] OTHER -> 88500]

(***************************************************************************)
(* Arithmetic on fractions <<n, d>>, d > 0, kept in lowest terms.          *)
(***************************************************************************)
Abs(x) == IF x < 0 THEN 0 - x ELSE x

RECURSIVE Gcd(_, _)
Gcd(a, b) == IF b = 0 THEN a ELSE Gcd(b, a % b)

Frac(n, d) ==
    LET g == Gcd(Abs(n), d)
    IN  IF g = 0 THEN <<0, 1>> ELSE <<n \div g, d \div g>>

FracInt(x) == <<x, 1>>
FracAdd(a, b) == Frac(a[1] * b[2] + b[1] * a[2], a[2] * b[2])
FracSub(a, b) == Frac(a[1] * b[2] - b[1] * a[2], a[2] * b[2])
FracMul(a, k) == Frac(a[1] * k, a[2])
FracDiv(a, k) == Frac(a[1], a[2] * k)
Zero == FracInt(0)

(***************************************************************************)
(* round(x, 2): the nearest whole cent.                                    *)
(***************************************************************************)
Round2(x) == 3 * ((x + 1) \div 3)

\* round(pnl, 2) of a fraction: the nearest cents; an exact half may go either
\* way, depending on the float that stands for it
Round2Frac(a) ==
    LET n == a[1]
        d == a[2]
        up == (2 * n + 3 * d) \div (6 * d)
    IN  IF (2 * n + 3 * d) % (6 * d) = 0 THEN {3 * up, 3 * (up - 1)} ELSE {3 * up}

(***************************************************************************)
(* Price process: price_simulator.py and the price services of sdk.py.     *)
(***************************************************************************)
\* The values current_price * (1 + drift + random_shock) takes in the model:
\* one just above a whole cent and, for AAPL, one just below the next dollar.
NewPriceDraws(s) ==
    IF s = "AAPL" THEN {base_prices[s] + 1, base_prices[s] + 299}
                  ELSE {base_prices[s] + 1}

\* What get_real_price_from_api answers: no quote, or the real price.
RealPrices(s) == {None, base_prices[s]}

\* initialize_from_api for a symbol the simulator knows: with probability 0.1
\* the current price is set to the real price.
initialize_from_api(cur, real_price) ==
    IF real_price = None THEN {cur} ELSE {cur, real_price}

\* a clamp whose floor is zero, not half the current price
update_priceFloorAtZero(cur, new_price) ==
    LET floored == IF new_price >= 0 THEN new_price ELSE 0
    IN  IF 2 * floored <= 3 * cur THEN floored ELSE (3 * cur) \div 2

\* a clamp that has lost its floor
update_priceNoFloor(cur, new_price) ==
    IF 2 * new_price <= 3 * cur THEN new_price ELSE (3 * cur) \div 2

\* The clamp of update_price; halves are taken only of even numbers (ExactClamp).
update_price(cur, new_price) ==
    LET floored == IF 2 * new_price >= cur THEN new_price ELSE cur \div 2
    IN  IF 2 * floored <= 3 * cur THEN floored ELSE (3 * cur) \div 2

ExactClamp(cur, new_price) ==
    /\ 2 * new_price < cur => cur % 2 = 0
    /\ 2 * new_price > 3 * cur => (3 * cur) % 2 = 0

\* The prices one call of get_live_price / get_price_data can leave in
\* simulator.current_prices[s]; the caller is handed Round2 of it.
SteppedPrices(s, cur) ==
    LET starts == UNION { initialize_from_api(cur, r) : r \in RealPrices(s) }
    IN  { update_price(cn[1], cn[2]) :
            cn \in { x \in starts \X NewPriceDraws(s) : ExactClamp(x[1], x[2]) } }

\* get_instruments: one step of every instrument
get_instruments(prices) ==
    { [s \in Symbols |-> CASE s = "AAPL" -> a [] s = "TSLA" -> t [] OTHER -> i] :
        a \in SteppedPrices("AAPL", prices["AAPL"]),
        t \in SteppedPrices("TSLA", prices["TSLA"]),
        i \in SteppedPrices("IBM", prices["IBM"]) }

\* The threads that run update_price: the event loop (place_order) and a
\* worker thread (the instrument and portfolio listings).
Threads == {"loop", "worker"}

\* The draws of SpecPrice: those of the order specifications and three that
\* the clamp has to cut: a fall to a quarter, a rise to the double, and a shock
\* below -1, which makes line 69 compute a negative price.
PriceDraws(s, cur) == NewPriceDraws(s) \cup {cur \div 4, 2 * cur, 0 - cur}

\* a trim that drops the newest entry
TrimmedNewest(h) == IF Len(h) > HistoryCap THEN SubSeq(h, 1, Len(h) - 1) ELSE h

\* lines 84-85: beyond 100 entries the oldest one goes
Trimmed(h) == IF Len(h) > HistoryCap THEN Tail(h) ELSE h

\* A history the simulator has after n - 1 steps that drew the low and the high
\* price of the symbol in turn; the current price is its last entry.
LongHistory(s, n) ==
    [i \in 1..n |-> IF i = 1 THEN base_prices[s]
                    ELSE base_prices[s] + 1 + (i % 2) * 298]

(***************************************************************************)
(* Order ledger: order_manager.py.                                         *)
(***************************************************************************)
create_order(order_id, symbol, quantity, side, style, price) ==
    [orderId |-> order_id, symbol |-> symbol, quantity |-> quantity,
     side |-> side, style |-> style, price |-> price, status |-> "NEW",
     createdAt |-> Now, executedPrice |-> None, executedAt |-> None]

\* the comparison turned around: a BUY matches at or above its limit
check_limit_executionReversed(side, current_price, limit_price) ==
    IF side = "BUY" THEN current_price >= limit_price
                    ELSE current_price <= limit_price

check_limit_execution(side, current_price, limit_price) ==
    IF side = "BUY" THEN current_price <= limit_price
                    ELSE current_price >= limit_price

\* an execution at the price the simulator holds when the delay is over
MarketExecutedAtLatestPrice(order, current_price) ==
    [order EXCEPT !.status = "EXECUTED",
                  !.executedPrice = Round2(current_prices[order.symbol]),
                  !.executedAt = Now]

\* execute_market_order after the sleep, lines 61-63
\* the delay ends without the order being marked: it stays as it is
MarketExecutedNotMarked(order, current_price) == order

MarketExecuted(order, current_price) ==
    [order EXCEPT !.status = "EXECUTED",
                  !.executedPrice = Round2(current_price),
                  !.executedAt = Now]

\* a LIMIT execution at the quote, not at the limit price
LimitExecutedAtQuote(order, current_price) ==
    IF check_limit_execution(order.side, current_price, order.price)
    THEN [order EXCEPT !.status = "EXECUTED",
                       !.executedPrice = Round2(current_price),
                       !.executedAt = Now]
    ELSE order

\* execute_limit_order, lines 73-87 (the status is PLACED by line 72)
LimitExecuted(order, current_price) ==
    IF check_limit_execution(order.side, current_price, order.price)
    THEN [order EXCEPT !.status = "EXECUTED",
                       !.executedPrice = Round2(order.price),
                       !.executedAt = Now]
    ELSE order

\* a status test that lets only NEW orders be cancelled
CannotCancelUnlessNew(status) == status # "NEW"

\* a status test that lets a CANCELLED order be cancelled again
CannotCancelExecutedOnly(status) == status = "EXECUTED"

\* the status test of cancel_order, line 95
CannotCancel(status) == status \in {"EXECUTED", "CANCELLED"}

(***************************************************************************)
(* Portfolio accountant: process_executed_order of main.py.                *)
(***************************************************************************)
\* lines 208-211: the entry of the symbol, created empty when there is none
WithEntry(pf, symbol) ==
    [s \in DOMAIN pf \cup {symbol} |->
        IF s \in DOMAIN pf THEN pf[s] ELSE [quantity |-> 0, avgPrice |-> Zero]]

\* no sufficiency test at all
InsufficientSharesUnchecked(p, quantity) == FALSE

\* a sufficiency test that only refuses to sell from an empty position
InsufficientSharesNoneHeld(p, quantity) == p.quantity = 0

\* line 223
InsufficientShares(p, quantity) == p.quantity < quantity

\* a BUY that takes the last price paid as the average cost
BuyAppliedLastPrice(p, quantity, executed_price) ==
    [quantity |-> p.quantity + quantity, avgPrice |-> FracInt(executed_price)]

\* lines 215-220
BuyApplied(p, quantity, executed_price) ==
    [quantity |-> p.quantity + quantity,
     avgPrice |->
        IF p.quantity = 0
        THEN FracInt(executed_price)
        ELSE FracDiv(FracAdd(FracMul(p.avgPrice, p.quantity),
                             FracInt(quantity * executed_price)),
                     p.quantity + quantity)]

\* a SELL that books its proceeds, not its gain over the average cost
SellPnlProceeds(p, quantity, executed_price) == FracInt(quantity * executed_price)

\* line 227
SellPnl(p, quantity, executed_price) ==
    FracMul(FracSub(FracInt(executed_price), p.avgPrice), quantity)

\* a SELL that closes the whole position, whatever quantity was sold
SellAppliedClosesPosition(p, quantity) == [quantity |-> 0, avgPrice |-> Zero]

\* a SELL that keeps the average cost of a position it empties
SellAppliedKeepsAvgPrice(p, quantity) ==
    [quantity |-> p.quantity - quantity, avgPrice |-> p.avgPrice]

\* a SELL that resets the average cost even when shares are left
SellAppliedResetsAvgPrice(p, quantity) ==
    [quantity |-> p.quantity - quantity, avgPrice |-> Zero]

\* lines 229-232
SellApplied(p, quantity) ==
    [quantity |-> p.quantity - quantity,
     avgPrice |-> IF p.quantity - quantity = 0 THEN Zero ELSE p.avgPrice]

\* a trade that records the price of the request, not the executed price
TradeAtRequestedPrice(order, pnl) ==
    [id |-> order.orderId, symbol |-> order.symbol, qty |-> order.quantity,
     price |-> order.price, side |-> order.side, pnl |-> pnl,
     executedAt |-> order.executedAt]

\* lines 236-244
Trade(order, pnl) ==
    [id |-> order.orderId, symbol |-> order.symbol, qty |-> order.quantity,
     price |-> order.executedPrice, side |-> order.side, pnl |-> pnl,
     executedAt |-> order.executedAt]

(***************************************************************************)
(* Requests of the model.                                                  *)
(***************************************************************************)
OrderSymbols == {"AAPL", "TSLA"}
Quantities == {5, 10}

\* A limit price just above the low quote of the symbol (not a whole number of
\* cents) and one equal to its high quote.
LimitPrices(s) == {base_prices[s] + 1, base_prices[s] + 300}

AllRequests ==
    { r \in [symbol : OrderSymbols, quantity : Quantities, side : OrderType,
             style : OrderStyle,
             price : {None} \cup UNION { LimitPrices(s) : s \in OrderSymbols }] :
        IF r.style = "LIMIT" THEN r.price \in LimitPrices(r.symbol)
                             ELSE r.price = None }

\* MARKET orders: both quantities on AAPL, 5 shares on TSLA
MarketRequests ==
    { r \in AllRequests : r.style = "MARKET" /\ (r.quantity = 10 => r.symbol = "AAPL") }

\* LIMIT orders for 5 shares of AAPL, and MARKET orders that build the position
LimitRequests ==
    { r \in AllRequests : r.symbol = "AAPL" /\ r.quantity = 5 }

\* The orders cancel requests race with: MARKET orders for 5 shares of AAPL
\* and a LIMIT BUY at the lower limit price
CancelRequests ==
    { r \in LimitRequests :
        r.style = "LIMIT" => r.side = "BUY" /\ r.price = base_prices[r.symbol] + 1 }

\* Submissions as they arrive, well formed or not: a symbol the server does
\* not list, a quantity of 0, a price of 0, no price (None: the field is absent).
SubmittedRequests ==
    [symbol : {"AAPL", "XYZ"}, quantity : {0, 5}, side : {"BUY"}, style : OrderStyle,
     price : {None, 0, base_prices["AAPL"] + 300}]

\* validate_price, lines 73-77: the check of a price that was supplied
validate_price(style, v) == ~(style = "LIMIT" /\ v = None)

\* OrderRequest, lines 54-77: quantity gt=0; price Optional, gt=0; side and
\* style among the known ones.  The validator of price is declared without
\* always=True, so it runs only on a price that was supplied.
OrderRequestValid(r) ==
    /\ r.quantity > 0
    /\ r.side \in OrderType
    /\ r.style \in OrderStyle
    /\ r.price # None => r.price > 0 /\ validate_price(r.style, r.price)

\* a symbol check that lets every symbol through
symbol_existsAlways(symbol) == TRUE

\* lines 151-153: the symbol is among the listed instruments
symbol_exists(symbol) == symbol \in Symbols

NoCancelResponse == [orderId |-> 0, code |-> 0]
NoResponse == [code |-> 0, status |-> "", detail |-> ""]
NoRefusal == [code |-> 0, detail |-> ""]

Idle == [pc |-> "idle", symbol |-> "", current_price |-> None, new_price |-> None]

InitLedger ==
    /\ orders = <<>>
    /\ portfolio = [s \in {} |-> 0]
    /\ trades = <<>>
    /\ total_pnl = Zero
    /\ tasks = <<>>
    /\ loop = 0
    /\ cancelling = {}
    /\ ncancel = 0
    /\ cancel_response = NoCancelResponse
    /\ refusal = NoRefusal
    /\ stepping = [t \in Threads |-> Idle]
    /\ nsteps = 0

\* PriceSimulator.__init__: every history holds the base price
Init ==
    /\ InitLedger
    /\ current_prices = base_prices
    /\ price_history = [s \in Symbols |-> <<base_prices[s]>>]

SetStatus(id, status) == [orders EXCEPT ![id].status = status]

(***************************************************************************)
(* place_order, main.py lines 142-195, on the event loop.                  *)
(***************************************************************************)
\* A submission that creates no order: the request model refuses it (422,
\* before place_order is entered), or place_order lists the instruments (every
\* price steps) and does not find the symbol (lines 151-155).
PlaceOrderRefuse(r) ==
    /\ loop = 0
    /\ IF ~OrderRequestValid(r)
       THEN /\ refusal' = [request |-> r, code |-> 422, detail |-> "validation error"]
            /\ UNCHANGED current_prices
       ELSE /\ ~symbol_exists(r.symbol)
            /\ \E f \in get_instruments(current_prices) : current_prices' = f
            /\ refusal' = [request |-> r, code |-> 400, detail |-> "Invalid symbol"]
    /\ cancel_response' = NoCancelResponse
    /\ UNCHANGED <<orders, portfolio, trades, total_pnl, tasks, loop, cancelling, ncancel>>
    /\ UNCHANGED simulator_steps

\* lines 151-166: the instruments are listed (every price steps), the symbol is
\* found among them, the order is created with status NEW
PlaceOrderCreate(r, max) ==
    /\ loop = 0
    /\ Len(orders) < max
    /\ OrderRequestValid(r)
    /\ \E f \in get_instruments(current_prices) : current_prices' = f
    /\ symbol_exists(r.symbol)
    /\ LET id == Len(orders) + 1
       IN  /\ orders' = Append(orders, create_order(id, r.symbol, r.quantity,
                                                    r.side, r.style, r.price))
           /\ tasks' = Append(tasks, [pc |-> "created", current_price |-> None,
                                      response |-> NoResponse])
           /\ loop' = id
    /\ cancel_response' = NoCancelResponse
    /\ refusal' = NoRefusal
    /\ UNCHANGED simulator_steps
    /\ UNCHANGED <<portfolio, trades, total_pnl, cancelling, ncancel>>

\* lines 168-180 and order_manager.py lines 57-59 / 71-72: the price is
\* sampled; a MARKET order is PLACED and sleeps; a LIMIT order is PLACED only
\* when check_limit_execution holds, otherwise place_order goes on to answer.
\* A LIMIT order without price stops there: check_limit_execution compares the
\* quote with None, the TypeError reaches general_exception_handler (500).
PlaceOrderQuote(id) ==
    /\ loop = id
    /\ tasks[id].pc = "created"
    /\ \E new_price \in SteppedPrices(orders[id].symbol, current_prices[orders[id].symbol]) :
        LET o == orders[id]
            current_price == Round2(new_price)
        IN  /\ current_prices' = [current_prices EXCEPT ![o.symbol] = new_price]
            /\ IF o.style = "LIMIT" /\ o.price = None
               THEN /\ orders' = orders
                    /\ tasks' = [tasks EXCEPT ![id].pc = "done",
                                              ![id].response = [code |-> 500, status |-> "",
                                                                detail |-> "Internal server error"]]
                    /\ loop' = 0
               ELSE IF o.style = "MARKET"
               THEN /\ orders' = SetStatus(id, "PLACED")
                    /\ tasks' = [tasks EXCEPT ![id].pc = "sleep",
                                              ![id].current_price = current_price]
                    /\ loop' = 0
               ELSE IF check_limit_execution(o.side, current_price, o.price)
               THEN /\ orders' = SetStatus(id, "PLACED")
                    /\ tasks' = [tasks EXCEPT ![id].pc = "placed",
                                              ![id].current_price = current_price]
                    /\ loop' = loop
               ELSE /\ orders' = orders
                    /\ tasks' = [tasks EXCEPT ![id].pc = "respond",
                                              ![id].current_price = current_price]
                    /\ loop' = loop
    /\ cancel_response' = NoCancelResponse
    /\ refusal' = NoRefusal
    /\ UNCHANGED simulator_steps
    /\ UNCHANGED <<portfolio, trades, total_pnl, cancelling, ncancel>>

\* order_manager.py lines 59-66: the sleep is over and the task takes the loop.
\* Every sleep lasts the same 0.1 s, so the sleepers wake in the order in which
\* they fell asleep, which is the order of their ids.
ExecuteMarketOrder(id) ==
    /\ loop = 0
    /\ tasks[id].pc = "sleep"
    /\ \A other \in DOMAIN tasks : tasks[other].pc = "sleep" => other >= id
    /\ orders' = [orders EXCEPT ![id] = MarketExecuted(@, tasks[id].current_price)]
    /\ tasks' = [tasks EXCEPT ![id].pc = "marked"]
    /\ loop' = id
    /\ cancel_response' = NoCancelResponse
    /\ refusal' = NoRefusal
    /\ UNCHANGED simulator_steps
    /\ UNCHANGED <<portfolio, trades, total_pnl, current_prices, cancelling, ncancel>>

\* order_manager.py lines 73-87
ExecuteLimitOrder(id) ==
    /\ loop = id
    /\ tasks[id].pc = "placed"
    /\ orders' = [orders EXCEPT ![id] = LimitExecuted(@, tasks[id].current_price)]
    /\ tasks' = [tasks EXCEPT ![id].pc = "marked"]
    /\ cancel_response' = NoCancelResponse
    /\ refusal' = NoRefusal
    /\ UNCHANGED simulator_steps
    /\ UNCHANGED <<portfolio, trades, total_pnl, current_prices, loop, cancelling,
                   ncancel>>

\* process_executed_order, main.py lines 197-244
ProcessExecutedOrder(id) ==
    /\ loop = id
    /\ tasks[id].pc = "marked"
    /\ LET order == orders[id]
           pf == WithEntry(portfolio, order.symbol)
           p == pf[order.symbol]
       IN  IF order.status # "EXECUTED"
           THEN /\ tasks' = [tasks EXCEPT ![id].pc = "respond"]
                /\ UNCHANGED <<orders, portfolio, trades, total_pnl, loop>>
           ELSE IF order.side = "BUY"
           THEN /\ portfolio' = [pf EXCEPT ![order.symbol] =
                                    BuyApplied(p, order.quantity, order.executedPrice)]
                /\ \E pnl \in Round2Frac(Zero) : trades' = <<Trade(order, pnl)>> \o trades
                /\ tasks' = [tasks EXCEPT ![id].pc = "respond"]
                /\ UNCHANGED <<orders, total_pnl, loop>>
           ELSE IF InsufficientShares(p, order.quantity)
           THEN /\ portfolio' = pf
                /\ orders' = SetStatus(id, "CANCELLED")
                /\ tasks' = [tasks EXCEPT ![id].pc = "done",
                                          ![id].current_price = None,
                                          ![id].response = [code |-> 400, status |-> "",
                                                            detail |-> "Insufficient shares"]]
                /\ loop' = 0
                /\ UNCHANGED <<trades, total_pnl>>
           ELSE LET pnl == SellPnl(p, order.quantity, order.executedPrice)
                IN  /\ total_pnl' = FracAdd(total_pnl, pnl)
                    /\ portfolio' = [pf EXCEPT ![order.symbol] =
                                        SellApplied(p, order.quantity)]
                    /\ \E shown \in Round2Frac(pnl) :
                          trades' = <<Trade(order, shown)>> \o trades
                    /\ tasks' = [tasks EXCEPT ![id].pc = "respond"]
                    /\ UNCHANGED <<orders, loop>>
    /\ cancel_response' = NoCancelResponse
    /\ refusal' = NoRefusal
    /\ UNCHANGED simulator_steps
    /\ UNCHANGED <<current_prices, cancelling, ncancel>>

\* main.py lines 191-195: the answer carries the status the order has now
PlaceOrderRespond(id) ==
    /\ loop = id
    /\ tasks[id].pc = "respond"
    /\ tasks' = [tasks EXCEPT ![id].pc = "done",
                              ![id].current_price = None,
                              ![id].response = [code |-> 201, status |-> orders[id].status,
                                                detail |-> "Order placed successfully"]]
    /\ loop' = 0
    /\ cancel_response' = NoCancelResponse
    /\ refusal' = NoRefusal
    /\ UNCHANGED simulator_steps
    /\ UNCHANGED <<orders, portfolio, trades, total_pnl, current_prices, cancelling,
                   ncancel>>

(***************************************************************************)
(* cancel_order, main.py lines 273-281 and order_manager.py lines 89-101,  *)
(* on a worker thread.                                                     *)
(***************************************************************************)
\* order_manager.py lines 91-97: unknown id or terminal status: None, hence 404;
\* otherwise the thread goes on to the write (code 0: no answer yet)
CancelOrderTest(order_id) ==
    /\ ncancel < MaxCancels
    /\ ncancel' = ncancel + 1
    /\ IF order_id \notin DOMAIN orders \/ CannotCancel(orders[order_id].status)
       THEN /\ cancel_response' = [orderId |-> order_id, code |-> 404]
            /\ UNCHANGED cancelling
       ELSE /\ cancelling' = cancelling \cup {order_id}
            /\ cancel_response' = [orderId |-> order_id, code |-> 0]
    /\ refusal' = NoRefusal
    /\ UNCHANGED simulator_steps
    /\ UNCHANGED <<orders, portfolio, trades, total_pnl, current_prices, tasks, loop>>

\* order_manager.py lines 99-101 and main.py line 281
CancelOrderWrite(order_id) ==
    /\ order_id \in cancelling
    /\ cancelling' = cancelling \ {order_id}
    /\ orders' = SetStatus(order_id, "CANCELLED")
    /\ cancel_response' = [orderId |-> order_id, code |-> 200]
    /\ refusal' = NoRefusal
    /\ UNCHANGED simulator_steps
    /\ UNCHANGED <<portfolio, trades, total_pnl, current_prices, tasks, loop, ncancel>>

\* the steps of a submission once its order exists
PlaceOrderStep ==
    \/ \E id \in DOMAIN orders : PlaceOrderQuote(id)
    \/ \E id \in DOMAIN orders : ExecuteMarketOrder(id)
    \/ \E id \in DOMAIN orders : ProcessExecutedOrder(id)
    \/ \E id \in DOMAIN orders : PlaceOrderRespond(id)

CancelOrderStep ==
    \/ \E order_id \in 1..MaxRacedOrders : CancelOrderTest(order_id)
    \/ \E order_id \in DOMAIN orders : CancelOrderWrite(order_id)

(***************************************************************************)
(* Spec: MARKET submissions, concurrent with one another.                  *)
(***************************************************************************)
Next ==
    \/ \E r \in MarketRequests : PlaceOrderCreate(r, MaxOrders)
    \/ PlaceOrderStep

Spec == Init /\ [][Next]_vars

(***************************************************************************)
(* SpecCancel: MARKET submissions on one symbol and cancel requests.       *)
(***************************************************************************)
NextCancel ==
    \/ \E r \in CancelRequests : PlaceOrderCreate(r, MaxRacedOrders)
    \/ PlaceOrderStep
    \/ \E id \in DOMAIN orders : ExecuteLimitOrder(id)
    \/ CancelOrderStep

SpecCancel == Init /\ [][NextCancel]_vars

(***************************************************************************)
(* SpecCancelFair: SpecCancel with the event loop's scheduling: a          *)
(* submission that can take its next step (the loop is free or is its own, *)
(* its delay of order_manager.py line 59 has elapsed) is eventually run.   *)
(* Nothing is assumed of new submissions or of the cancel threads.         *)
(***************************************************************************)
SubmissionStep ==
    \/ PlaceOrderStep
    \/ \E id \in DOMAIN orders : ExecuteLimitOrder(id)

SpecCancelFair == Init /\ [][NextCancel]_vars /\ WF_vars(SubmissionStep)

(***************************************************************************)
(* SpecLimit: LIMIT and MARKET submissions on one symbol.                  *)
(***************************************************************************)
NextLimit ==
    \/ \E r \in LimitRequests : PlaceOrderCreate(r, MaxOrders)
    \/ PlaceOrderStep
    \/ \E id \in DOMAIN orders : ExecuteLimitOrder(id)

SpecLimit == Init /\ [][NextLimit]_vars

(***************************************************************************)
(* SpecValidate: submissions as they arrive, well formed or not.           *)
(***************************************************************************)
NextValidate ==
    \/ \E r \in SubmittedRequests : PlaceOrderCreate(r, MaxRacedOrders)
    \/ \E r \in SubmittedRequests : PlaceOrderRefuse(r)
    \/ PlaceOrderStep
    \/ \E id \in DOMAIN orders : ExecuteLimitOrder(id)

SpecValidate == Init /\ [][NextValidate]_vars

(***************************************************************************)
(* update_price of price_simulator.py, run by two threads at once.         *)
(***************************************************************************)
\* sdk.py lines 46-48 / 63-65 and price_simulator.py lines 55-73: the price is
\* synchronised or not, the current price is read, the new price is drawn and
\* clamped
UpdatePriceRead(t, s) ==
    /\ stepping[t].pc = "idle"
    /\ nsteps < MaxSteps
    /\ nsteps' = nsteps + 1
    /\ \E r \in RealPrices(s) : \E cur \in initialize_from_api(current_prices[s], r) :
          \E draw \in PriceDraws(s, cur) :
            /\ ExactClamp(cur, draw)
            /\ current_prices' = [current_prices EXCEPT ![s] = cur]
            /\ stepping' = [stepping EXCEPT ![t] =
                               [pc |-> "read", symbol |-> s, current_price |-> cur,
                                new_price |-> update_price(cur, draw)]]
    /\ UNCHANGED <<orders, portfolio, trades, total_pnl, tasks, loop, cancelling,
                   ncancel, cancel_response, refusal, price_history>>

\* price_simulator.py lines 80-83: the new price is written and appended
UpdatePriceWrite(t) ==
    /\ stepping[t].pc = "read"
    /\ LET s == stepping[t].symbol
       IN  /\ current_prices' = [current_prices EXCEPT ![s] = stepping[t].new_price]
           /\ price_history' = [price_history EXCEPT ![s] = Append(@, stepping[t].new_price)]
    /\ stepping' = [stepping EXCEPT ![t].pc = "written"]
    /\ UNCHANGED <<orders, portfolio, trades, total_pnl, tasks, loop, cancelling,
                   ncancel, cancel_response, refusal, nsteps>>

\* price_simulator.py lines 84-85
UpdatePriceTrim(t) ==
    /\ stepping[t].pc = "written"
    /\ price_history' = [price_history EXCEPT ![stepping[t].symbol] = Trimmed(@)]
    /\ stepping' = [stepping EXCEPT ![t] = Idle]
    /\ UNCHANGED <<orders, portfolio, trades, total_pnl, current_prices, tasks, loop,
                   cancelling, ncancel, cancel_response, refusal, nsteps>>

(***************************************************************************)
(* SpecPrice: price steps of one symbol on two threads, from a fresh       *)
(* simulator or from one whose history is about to reach its 100 entries.  *)
(***************************************************************************)
PriceSymbols == {"AAPL"}

InitPrice ==
    /\ InitLedger
    /\ \E n \in {1, HistoryCap - 2} :
          price_history = [s \in Symbols |-> IF s \in PriceSymbols
                                             THEN LongHistory(s, n)
                                             ELSE <<base_prices[s]>>]
    /\ current_prices = [s \in Symbols |-> price_history[s][Len(price_history[s])]]

NextPrice ==
    \/ \E t \in Threads, s \in PriceSymbols : UpdatePriceRead(t, s)
    \/ \E t \in Threads : UpdatePriceWrite(t)
    \/ \E t \in Threads : UpdatePriceTrim(t)

SpecPrice == InitPrice /\ [][NextPrice]_vars

(***************************************************************************)
(* Vocabulary of the properties.                                           *)
(***************************************************************************)
Terminal(status) == status \in {"EXECUTED", "CANCELLED"}

\* the position of a symbol, a symbol without entry counting as empty
Position(pf, s) ==
    IF s \in DOMAIN pf THEN pf[s] ELSE [quantity |-> 0, avgPrice |-> Zero]

HasTrade(id) == \E i \in DOMAIN trades : trades[i].id = id

\* the submission was answered 400 "Insufficient shares"
Rejected(tk, id) ==
    /\ tk[id].response.code = 400
    /\ tk[id].response.detail = "Insufficient shares"

\* this step is process_executed_order of order id, entered with status EXECUTED
Processing(id) ==
    /\ tasks[id].pc = "marked"
    /\ tasks'[id].pc # "marked"
    /\ orders[id].status = "EXECUTED"

\* shares of s bought less shares sold by the trades of orders older than id
RECURSIVE HeldBefore(_, _, _)
HeldBefore(s, id, k) ==
    IF k = 0 THEN 0
    ELSE LET t == trades[k]
             rest == HeldBefore(s, id, k - 1)
         IN  IF t.symbol = s /\ t.id < id
             THEN IF t.side = "BUY" THEN rest + t.qty ELSE rest - t.qty
             ELSE rest

(***************************************************************************)
(* C1. The statuses an order takes are a prefix of NEW, PLACED, then       *)
(* EXECUTED or CANCELLED (CANCELLED may follow NEW directly), and an order *)
(* that is EXECUTED or CANCELLED never changes status again.               *)
(***************************************************************************)
C1_Lifecycle ==
    {<<"NEW", "PLACED">>, <<"NEW", "CANCELLED">>,
     <<"PLACED", "EXECUTED">>, <<"PLACED", "CANCELLED">>}

C1_StatusLifecycle ==
    [][\A id \in DOMAIN orders' :
          IF id \in DOMAIN orders
          THEN \/ orders'[id].status = orders[id].status
               \/ <<orders[id].status, orders'[id].status>> \in C1_Lifecycle
          ELSE orders'[id].status = "NEW"]_vars

(***************************************************************************)
(* C2. Of two SELL orders on one symbol that are in flight together, each  *)
(* for no more than the position and together for more, exactly one is     *)
(* applied and the other is answered "Insufficient shares"; the position   *)
(* is never negative; when the applied one sells the whole position the    *)
(* position ends with quantity 0 and average cost 0, one SELL trade made.  *)
(***************************************************************************)
C2_Pair(a, b) ==
    /\ a < b
    /\ orders[a].side = "SELL" /\ orders[b].side = "SELL"
    /\ orders[a].symbol = orders[b].symbol
    /\ \A c \in DOMAIN orders : a < c /\ c < b => orders[c].symbol # orders[a].symbol
    /\ LET held == HeldBefore(orders[a].symbol, a, Len(trades))
       IN  /\ orders[a].quantity <= held
           /\ orders[b].quantity <= held
           /\ orders[a].quantity + orders[b].quantity > held

C2_ConcurrentSells ==
    /\ \A s \in DOMAIN portfolio : portfolio[s].quantity >= 0
    /\ \A a, b \in DOMAIN orders :
          C2_Pair(a, b) /\ tasks[a].pc = "done" /\ tasks[b].pc = "done" =>
            LET s == orders[a].symbol
                held == HeldBefore(s, a, Len(trades))
                sold == IF HasTrade(a) THEN orders[a].quantity ELSE orders[b].quantity
            IN  /\ HasTrade(a) # HasTrade(b)
                /\ Rejected(tasks, a) # Rejected(tasks, b)
                /\ HasTrade(a) # Rejected(tasks, a)
                /\ HeldBefore(s, b + 1, Len(trades)) = held - sold
                /\ (b = Len(orders) /\ sold = held) =>
                      portfolio[s] = [quantity |-> 0, avgPrice |-> Zero]

\* both SELLs sleep at once, the position covering each and not both
C2_Witness ==
    \E a, b \in DOMAIN orders :
        /\ C2_Pair(a, b)
        /\ tasks[a].pc = "sleep" /\ tasks[b].pc = "sleep"
        /\ Position(portfolio, orders[a].symbol).quantity = orders[a].quantity
        /\ orders[b].quantity = orders[a].quantity

(***************************************************************************)
(* C3. Every position has quantity >= 0, and average cost 0 whenever its   *)
(* quantity is 0.                                                          *)
(***************************************************************************)
C3_PositionInvariant ==
    \A s \in DOMAIN portfolio :
        /\ portfolio[s].quantity >= 0
        /\ portfolio[s].quantity = 0 => portfolio[s].avgPrice = Zero

\* a position that was bought at a price and sold out again
C3_Witness ==
    \E i \in DOMAIN trades :
        /\ trades[i].side = "SELL"
        /\ Position(portfolio, trades[i].symbol).quantity = 0
        /\ \E s \in DOMAIN portfolio : portfolio[s].quantity > 0

(***************************************************************************)
(* C4. A SELL for more shares than are held (also when none are held) is   *)
(* answered "Insufficient shares", its order ends CANCELLED, and no trade  *)
(* is recorded, total_pnl and every position's quantity and average cost   *)
(* stay as they were.                                                      *)
(***************************************************************************)
C4_RejectedSell ==
    [][\A id \in DOMAIN orders :
          /\ ( /\ Processing(id)
               /\ orders[id].side = "SELL"
               /\ orders[id].quantity > Position(portfolio, orders[id].symbol).quantity )
             => /\ Rejected(tasks', id)
                /\ orders'[id].status = "CANCELLED"
                /\ trades' = trades
                /\ total_pnl' = total_pnl
                /\ \A s \in Symbols : Position(portfolio', s) = Position(portfolio, s)
          /\ Rejected(tasks, id) => orders'[id].status = "CANCELLED"]_vars

\* the last order asked for more than the shares that are held
C4_Witness ==
    /\ orders # <<>>
    /\ LET id == Len(orders)
           held == Position(portfolio, orders[id].symbol).quantity
       IN  /\ Rejected(tasks, id)
           /\ orders[id].status = "CANCELLED"
           /\ 0 < held /\ held < orders[id].quantity

(***************************************************************************)
(* C5. A LIMIT order is executed at submission exactly when the quote      *)
(* meets its condition (BUY: quote <= limit price, SELL: quote >= limit    *)
(* price), and then its executedPrice and its trade's price are the limit  *)
(* price, not the quote.  C5_LimitAtLimitPrice states this as claimed;     *)
(* C5_LimitAtRoundedLimitPrice with the limit price rounded to cents.      *)
(***************************************************************************)
C5_ExecutedIffConditionMet ==
    \A id \in DOMAIN orders :
        orders[id].style = "LIMIT" /\ tasks[id].pc \in {"marked", "respond"} =>
            LET quote == tasks[id].current_price
                met == IF orders[id].side = "BUY" THEN quote <= orders[id].price
                                                  ELSE quote >= orders[id].price
            IN  (orders[id].executedPrice # None) <=> met

C5_LimitAtLimitPrice ==
    /\ C5_ExecutedIffConditionMet
    /\ \A id \in DOMAIN orders :
          orders[id].style = "LIMIT" /\ orders[id].executedPrice # None =>
              orders[id].executedPrice = orders[id].price
    /\ \A i \in DOMAIN trades :
          orders[trades[i].id].style = "LIMIT" =>
              trades[i].price = orders[trades[i].id].price

C5_LimitAtRoundedLimitPrice ==
    /\ C5_ExecutedIffConditionMet
    /\ \A id \in DOMAIN orders :
          orders[id].style = "LIMIT" /\ orders[id].executedPrice # None =>
              orders[id].executedPrice = Round2(orders[id].price)
    /\ \A i \in DOMAIN trades :
          orders[trades[i].id].style = "LIMIT" =>
              trades[i].price = Round2(orders[trades[i].id].price)

\* a LIMIT order traded at a price that is neither the quote nor, to the
\* last digit, its limit price
C5_Witness ==
    \E i \in DOMAIN trades :
        LET id == trades[i].id
        IN  /\ orders[id].style = "LIMIT"
            /\ tasks[id].pc = "respond"
            /\ trades[i].price # tasks[id].current_price
            /\ trades[i].price # orders[id].price
            /\ \E j \in DOMAIN orders :
                  /\ orders[j].style = "LIMIT"
                  /\ tasks[j].pc = "done"
                  /\ orders[j].executedPrice = None

(***************************************************************************)
(* C6. A LIMIT order whose condition the quote does not meet is left       *)
(* PLACED: the status answered and the status stored are both PLACED.      *)
(***************************************************************************)
C6_UnmatchedLimitPlaced ==
    \A id \in DOMAIN orders :
        ( /\ orders[id].style = "LIMIT"
          /\ tasks[id].pc = "done"
          /\ orders[id].executedPrice = None )
        => /\ tasks[id].response.status = "PLACED"
           /\ orders[id].status = "PLACED"

(***************************************************************************)
(* C7. total_pnl is the sum over the applied SELLs of (executedPrice -     *)
(* average cost at the sale) * quantity; BUYs and rejected orders add      *)
(* nothing.  The sum is recomputed from the trade history, oldest first.   *)
(***************************************************************************)
RECURSIVE C7_Replay(_)
C7_Replay(k) ==
    IF k = 0
    THEN [pos |-> [s \in Symbols |-> [quantity |-> 0, avgPrice |-> Zero]], pnl |-> Zero]
    ELSE LET prev == C7_Replay(k - 1)
             t == trades[Len(trades) - k + 1]
             p == prev.pos[t.symbol]
             n == p.avgPrice[1]
             d == p.avgPrice[2]
         IN  IF t.side = "BUY"
             THEN [pos |-> [prev.pos EXCEPT ![t.symbol] =
                              [quantity |-> p.quantity + t.qty,
                               avgPrice |-> Frac(n * p.quantity + t.qty * t.price * d,
                                                 d * (p.quantity + t.qty))]],
                   pnl |-> prev.pnl]
             ELSE [pos |-> [prev.pos EXCEPT ![t.symbol] =
                              [quantity |-> p.quantity - t.qty,
                               avgPrice |-> IF p.quantity = t.qty THEN Zero
                                                                  ELSE p.avgPrice]],
                   pnl |-> FracAdd(prev.pnl, Frac((t.price * d - n) * t.qty, d))]

C7_RealizedPnl == total_pnl = C7_Replay(Len(trades)).pnl

\* two sales with a profit or loss in all, and a rejected order
C7_Witness ==
    /\ total_pnl # Zero
    /\ \E i, j \in DOMAIN trades :
          i # j /\ trades[i].side = "SELL" /\ trades[j].side = "SELL"

C7_WitnessRejected ==
    /\ total_pnl # Zero
    /\ \E id \in DOMAIN orders : Rejected(tasks, id)

(***************************************************************************)
(* C8. An executed BUY of q shares at price p turns a position (q_old,     *)
(* avg_old) into quantity q_old + q with an average cost avg_new such that *)
(* avg_new * (q_old + q) = q_old * avg_old + q * p; avg_new = p when       *)
(* q_old = 0.                                                              *)
(***************************************************************************)
C8_BuyApplied ==
    [][\A id \in DOMAIN orders :
          Processing(id) /\ orders[id].side = "BUY" =>
            LET old == Position(portfolio, orders[id].symbol)
                new == Position(portfolio', orders[id].symbol)
                q == orders[id].quantity
                px == orders[id].executedPrice
            IN  /\ new.quantity = old.quantity + q
                /\ FracMul(new.avgPrice, old.quantity + q)
                      = FracAdd(FracMul(old.avgPrice, old.quantity), FracInt(q * px))
                /\ old.quantity = 0 => new.avgPrice = FracInt(px)]_vars

\* a position whose average cost is the price of none of its trades
C8_Witness ==
    \E s \in DOMAIN portfolio :
        /\ portfolio[s].quantity > 0
        /\ \A i \in DOMAIN trades :
              trades[i].symbol = s => FracInt(trades[i].price) # portfolio[s].avgPrice

(***************************************************************************)
(* C9. An executed SELL of q <= q_old shares at price p turns a position   *)
(* (q_old, avg_old) into quantity q_old - q, adds (p - avg_old) * q to     *)
(* total_pnl, and sets the average cost to 0 exactly when no share is      *)
(* left, leaving it avg_old otherwise.                                     *)
(***************************************************************************)
C9_SellApplied ==
    [][\A id \in DOMAIN orders :
          LET old == Position(portfolio, orders[id].symbol)
              new == Position(portfolio', orders[id].symbol)
              q == orders[id].quantity
              px == orders[id].executedPrice
          IN  Processing(id) /\ orders[id].side = "SELL" /\ q <= old.quantity =>
                /\ new.quantity = old.quantity - q
                /\ total_pnl' = FracAdd(total_pnl,
                                        FracMul(FracSub(FracInt(px), old.avgPrice), q))
                /\ new.avgPrice = IF new.quantity = 0 THEN Zero ELSE old.avgPrice
                /\ (new.avgPrice = Zero) <=> (new.quantity = 0)]_vars

\* BUY 10 at P1, then SELL 5 at another price P2: 5 shares are left at
\* average cost P1 and total_pnl is (P2 - P1) * 5
C9_Witness ==
    /\ Len(trades) = 2
    /\ trades[2].side = "BUY" /\ trades[2].qty = 10
    /\ trades[1].side = "SELL" /\ trades[1].qty = 5
    /\ trades[1].symbol = trades[2].symbol
    /\ trades[1].price # trades[2].price
    /\ portfolio[trades[1].symbol] =
          [quantity |-> 5, avgPrice |-> FracInt(trades[2].price)]
    /\ total_pnl = FracInt((trades[1].price - trades[2].price) * 5)

(***************************************************************************)
(* C10. A cancel request for an order that is EXECUTED or CANCELLED, or    *)
(* for an id that does not exist, is answered with the failure and changes *)
(* nothing, the first time and every time after.                           *)
(***************************************************************************)
C10_CancelTerminalNoOp ==
    [][\A order_id \in 1..MaxRacedOrders :
          ( /\ ncancel' = ncancel + 1
            /\ cancel_response'.orderId = order_id
            /\ \/ order_id \notin DOMAIN orders
               \/ Terminal(orders[order_id].status) )
          => /\ cancel_response'.code = 404
             /\ cancelling' = cancelling
             /\ UNCHANGED <<orders, portfolio, trades, total_pnl, tasks>>]_vars

\* the second of two cancel requests has failed on an EXECUTED order
C10_Witness ==
    /\ ncancel = 2
    /\ cancel_response.code = 404
    /\ cancel_response.orderId \in DOMAIN orders
    /\ orders[cancel_response.orderId].status = "EXECUTED"
    /\ HasTrade(cancel_response.orderId)

(***************************************************************************)
(* C11. An order is EXECUTED only together with its ledger mutation: in no *)
(* state that a reader or a cancel running on another thread can meet is   *)
(* an order EXECUTED while its trade is missing from the trade history (a  *)
(* rejected SELL never has a trade, so it may never be met EXECUTED).      *)
(***************************************************************************)
C11_ExecutedWithLedger ==
    \A id \in DOMAIN orders :
        orders[id].status = "EXECUTED" => HasTrade(id)

(***************************************************************************)
(* C12. For every order, executedPrice and executedAt are set exactly when *)
(* its status is EXECUTED.                                                 *)
(***************************************************************************)
C12_ExecutedFieldsIffExecuted ==
    \A id \in DOMAIN orders :
        /\ (orders[id].executedPrice # None) <=> (orders[id].status = "EXECUTED")
        /\ (orders[id].executedAt # None) <=> (orders[id].status = "EXECUTED")

(***************************************************************************)
(* C18. The trade history is newest first: an applied execution puts       *)
(* exactly one trade at the front, carrying the order's id, symbol,        *)
(* quantity, side and executedPrice, with P&L 0 for a BUY; no other step   *)
(* changes the history, and the trades already in it stay as they are, in  *)
(* the order they have.                                                    *)
(***************************************************************************)
C18_TradeHistory ==
    [][/\ \/ trades' = trades
          \/ \E id \in DOMAIN orders :
                /\ Processing(id)
                /\ ~HasTrade(id)
                /\ trades' # <<>>
                /\ Tail(trades') = trades
                /\ LET t == Head(trades')
                   IN  /\ t.id = orders[id].orderId
                       /\ t.symbol = orders[id].symbol
                       /\ t.qty = orders[id].quantity
                       /\ t.side = orders[id].side
                       /\ t.price = orders[id].executedPrice
                       /\ t.side = "BUY" => t.pnl = 0
       /\ \A id \in DOMAIN orders :
             Processing(id) /\ ~Rejected(tasks', id) => Len(trades') = Len(trades) + 1]_vars

\* three trades, the newest a SELL with a gain or loss, the oldest a BUY
C18_Witness ==
    /\ Len(trades) = 3
    /\ trades[1].side = "SELL" /\ trades[1].pnl # 0
    /\ trades[3].side = "BUY" /\ trades[3].pnl = 0
    /\ trades[1].id > trades[2].id /\ trades[2].id > trades[3].id

(***************************************************************************)
(* C19. A MARKET order that is not rejected for insufficient shares is     *)
(* EXECUTED at the quote sampled at its submission, before the delay; the  *)
(* answer reports EXECUTED and the position is updated with that price: a  *)
(* BUY on an empty position leaves its quantity at average cost = quote.   *)
(***************************************************************************)
C19_MarketAtQuote ==
    [][\A id \in DOMAIN orders :
          orders[id].style = "MARKET" =>
            LET quote == tasks[id].current_price
                old == Position(portfolio, orders[id].symbol)
                new == Position(portfolio', orders[id].symbol)
            IN  /\ tasks[id].pc = "sleep" /\ tasks'[id].pc = "marked" =>
                      /\ orders'[id].status = "EXECUTED"
                      /\ orders'[id].executedPrice = quote
                /\ Processing(id) /\ ~Rejected(tasks', id) =>
                      /\ Head(trades').id = id
                      /\ Head(trades').price = quote
                      /\ orders[id].side = "BUY" /\ old.quantity = 0 =>
                            new = [quantity |-> orders[id].quantity,
                                   avgPrice |-> FracInt(quote)]
                /\ tasks[id].pc # "done" /\ tasks'[id].pc = "done"
                   /\ ~Rejected(tasks', id) =>
                      /\ orders'[id].status = "EXECUTED"
                      /\ tasks'[id].response.code = 201
                      /\ tasks'[id].response.status = "EXECUTED"]_vars

\* BUY 10 on an empty portfolio, answered EXECUTED, holds 10 at the quote of
\* its submission although the price has moved since
C19_Witness ==
    \E id \in DOMAIN orders :
        /\ orders[id].style = "MARKET" /\ orders[id].side = "BUY"
        /\ orders[id].quantity = 10
        /\ tasks[id].pc = "done"
        /\ tasks[id].response.status = "EXECUTED"
        /\ Len(trades) = 1
        /\ portfolio = (orders[id].symbol :> [quantity |-> 10,
                                             avgPrice |-> FracInt(orders[id].executedPrice)])
        /\ Round2(current_prices[orders[id].symbol]) # orders[id].executedPrice

(***************************************************************************)
(* C20. The portfolio store holds an entry for a symbol exactly when a BUY *)
(* of that symbol has been applied.                                        *)
(***************************************************************************)
C20_EntryIffBuyApplied ==
    \A s \in Symbols :
        s \in DOMAIN portfolio <=>
            \E i \in DOMAIN trades : trades[i].symbol = s /\ trades[i].side = "BUY"

(***************************************************************************)
(* C13. A submission with quantity <= 0, with style LIMIT and no price, or *)
(* with price <= 0 is refused with a validation error (422) and creates no *)
(* order; orders, positions, trades and stats are as before.               *)
(***************************************************************************)
C13_Malformed(r) ==
    \/ r.quantity <= 0
    \/ r.style = "LIMIT" /\ r.price = None
    \/ r.price # None /\ r.price <= 0

C13_MalformedRefused ==
    [][/\ \A id \in DOMAIN orders' \ DOMAIN orders : ~C13_Malformed(orders'[id])
       /\ refusal' # NoRefusal /\ C13_Malformed(refusal'.request) =>
             /\ refusal'.code = 422
             /\ UNCHANGED <<orders, portfolio, trades, total_pnl>>]_vars

(***************************************************************************)
(* C14. A well-formed submission whose symbol is not a listed instrument   *)
(* fails with the unknown-symbol error (400) and creates no order: orders, *)
(* positions, trades and stats are as before.                              *)
(***************************************************************************)
C14_UnknownSymbolRefused ==
    [][/\ \A id \in DOMAIN orders' \ DOMAIN orders : orders'[id].symbol \in Symbols
       /\ refusal' # NoRefusal /\ refusal'.request.symbol \notin Symbols
          /\ OrderRequestValid(refusal'.request) =>
             /\ refusal'.code = 400
             /\ refusal'.detail = "Invalid symbol"
             /\ UNCHANGED <<orders, portfolio, trades, total_pnl, tasks>>]_vars

\* an unknown symbol has just been refused on a server that holds a position
C14_Witness ==
    /\ refusal # NoRefusal
    /\ refusal.code = 400
    /\ refusal.request.symbol = "XYZ"
    /\ trades # <<>>
    /\ \E s \in DOMAIN portfolio : portfolio[s].quantity > 0

(***************************************************************************)
(* C15. Every step of the price process leaves the new current price       *)
(* within [0.5 * prev, 1.5 * prev], prev being the current price the step  *)
(* read when it began, whatever was drawn.                                 *)
(***************************************************************************)
C15_PriceClamp ==
    [][\A t \in Threads :
          /\ stepping[t].pc = "idle" /\ stepping'[t].pc = "read" =>
                LET prev == current_prices'[stepping'[t].symbol]
                IN  /\ stepping'[t].current_price = prev
                    /\ 2 * stepping'[t].new_price >= prev
                    /\ 2 * stepping'[t].new_price <= 3 * prev
          /\ stepping[t].pc = "read" /\ stepping'[t].pc = "written" =>
                LET prev == stepping[t].current_price
                    new == current_prices'[stepping[t].symbol]
                IN  /\ new = stepping[t].new_price
                    /\ 2 * new >= prev
                    /\ 2 * new <= 3 * prev]_vars

\* a step has been cut at half its starting price, another at one and a half
C15_Witness ==
    \E s \in PriceSymbols :
        LET h == price_history[s]
        IN  /\ \E i \in 1..(Len(h) - 1) : 2 * h[i + 1] = h[i]
            /\ \E j \in 1..(Len(h) - 1) : 2 * h[j + 1] = 3 * h[j]

(***************************************************************************)
(* C16. After any sequence of price steps a history holds at most 100      *)
(* entries: a step appends its new price as the last entry and, when that  *)
(* makes more than 100, removes the oldest entry and no other, so that the *)
(* history is the most recent prices in the order they were appended.      *)
(***************************************************************************)
C16_HistoryBuffer ==
    [][\A s \in Symbols :
          LET h == price_history[s]
              h2 == price_history'[s]
              inside == { t \in Threads : stepping'[t].pc = "written"
                                          /\ stepping'[t].symbol = s }
          IN  /\ \/ h2 = h
                 \/ \E t \in Threads :
                       /\ stepping[t].pc = "read" /\ stepping'[t].pc = "written"
                       /\ h2 = Append(h, stepping[t].new_price)
                 \/ \E t \in Threads :
                       /\ stepping[t].pc = "written" /\ stepping'[t].pc = "idle"
                       /\ Len(h) > HistoryCap
                       /\ h2 = Tail(h)
              /\ \A t \in Threads :
                    stepping[t].pc = "written" /\ stepping[t].symbol = s
                    /\ stepping'[t].pc = "idle" /\ Len(h) > HistoryCap => h2 = Tail(h)
              /\ Len(h2) <= HistoryCap + Cardinality(inside)]_vars

\* no step is under way, the history is full and its oldest entries are gone
C16_Witness ==
    /\ \A t \in Threads : stepping[t].pc = "idle"
    /\ \E s \in PriceSymbols :
          /\ Len(price_history[s]) = HistoryCap
          /\ price_history[s][1] # base_prices[s]
          /\ price_history[s][HistoryCap] = current_prices[s]

(***************************************************************************)
(* C17. The steps of the price process on a symbol are serialized: a step  *)
(* writes its new price over the current price it started from (no other   *)
(* step's price came in between, so none is lost), and every history entry *)
(* is within [0.5, 1.5] times the entry appended just before it.           *)
(***************************************************************************)
C17_StepsSerialized ==
    [][/\ \A t \in Threads :
             stepping[t].pc = "read" /\ stepping'[t].pc = "written" =>
                stepping[t].current_price = current_prices[stepping[t].symbol]
       /\ \A s \in PriceSymbols :
             \A i \in 1..(Len(price_history'[s]) - 1) :
                /\ 2 * price_history'[s][i + 1] >= price_history'[s][i]
                /\ 2 * price_history'[s][i + 1] <= 3 * price_history'[s][i]]_vars

(***************************************************************************)
(* C21. A cancel request that finds its order NEW or PLACED sets the       *)
(* order's status to CANCELLED and is answered with success; nothing else  *)
(* changes: the order's other fields, every other order, the positions,    *)
(* the trade history and the stats stay as they are.                       *)
(***************************************************************************)
C21_CancelFrame ==
    [][\A id \in DOMAIN orders :
          /\ ( /\ ncancel' = ncancel + 1
               /\ cancel_response'.orderId = id
               /\ orders[id].status \in {"NEW", "PLACED"} )
             => /\ id \in cancelling'
                /\ UNCHANGED <<orders, portfolio, trades, total_pnl, tasks>>
          /\ id \in cancelling /\ id \notin cancelling'
             => /\ orders' = [orders EXCEPT ![id].status = "CANCELLED"]
                /\ cancel_response' = [orderId |-> id, code |-> 200]
                /\ UNCHANGED <<portfolio, trades, total_pnl, tasks>>]_vars

\* a PLACED order has just been cancelled beside an order that has traded
C21_Witness ==
    /\ cancel_response.code = 200
    /\ cancel_response.orderId \in DOMAIN orders
    /\ orders[cancel_response.orderId].status = "CANCELLED"
    /\ tasks[cancel_response.orderId].pc = "sleep"
    /\ \E other \in DOMAIN orders : orders[other].status = "EXECUTED" /\ HasTrade(other)
    /\ \E s \in DOMAIN portfolio : portfolio[s].quantity > 0

C23_MarketTerminates ==
    \A id \in 1..MaxRacedOrders :
        (id \in DOMAIN orders /\ orders[id].style = "MARKET")
            ~> (id \in DOMAIN orders /\ Terminal(orders[id].status))

\* a MARKET order ended CANCELLED by a cancel request, not by a rejection,
\* beside another MARKET order that ended EXECUTED
C23_Witness ==
    \E id, other \in DOMAIN orders :
        /\ orders[id].style = "MARKET" /\ orders[other].style = "MARKET"
        /\ tasks[id].pc = "done" /\ tasks[other].pc = "done"
        /\ orders[id].status = "CANCELLED" /\ ~ Rejected(tasks, id)
        /\ orders[other].status = "EXECUTED"
        /\ ncancel > 0

(***************************************************************************)
(* C24. A submission refused for an unknown symbol does not advance the    *)
(* price process: the current price and the history buffer of every        *)
(* instrument are after the refusal what they were before it.  (Volume is  *)
(* not followed by the model; it moves with the current price, in the same *)
(* call.)                                                                  *)
(***************************************************************************)
C24_RefusalKeepsPrices ==
    [][refusal'.code = 400 /\ refusal'.detail = "Invalid symbol"
          => UNCHANGED <<current_prices, price_history>>]_vars

(***************************************************************************)
(* C25. A MARKET order that a cancel request has set to CANCELLED during   *)
(* its processing delay stays CANCELLED when the delay ends and afterwards *)
(* and never trades: the rest of its submission leaves its executed price, *)
(* the trade history, the positions and the realized P&L as they are.      *)
(***************************************************************************)
C25_CancelledInDelayStays ==
    [][\A id \in DOMAIN orders :
          ( /\ orders[id].style = "MARKET"
            /\ tasks[id].pc \in {"sleep", "marked", "respond", "done"}
            /\ orders[id].status = "CANCELLED"
            /\ ~ HasTrade(id)
            /\ ~ Rejected(tasks, id) )
          => /\ orders'[id].status = "CANCELLED"
             /\ orders'[id].executedPrice = orders[id].executedPrice
             /\ ~ HasTrade(id)'
             /\ tasks'[id] # tasks[id] => UNCHANGED <<portfolio, trades, total_pnl>>]_vars

\* shares of s bought less shares of s sold by the first k trades of the history
RECURSIVE NetTraded(_, _)
NetTraded(s, k) ==
    IF k = 0 THEN 0
    ELSE LET t == trades[k]
             rest == NetTraded(s, k - 1)
         IN  IF t.symbol # s THEN rest
             ELSE IF t.side = "BUY" THEN rest + t.qty ELSE rest - t.qty

(***************************************************************************)
(* C26. In every state and for every symbol, the quantity of the position  *)
(* (0 for a symbol without entry) is the sum of the quantities of the BUY  *)
(* trades of that symbol in the trade history less the sum of the          *)
(* quantities of its SELL trades.                                          *)
(***************************************************************************)
C26_PositionIsNetOfTrades ==
    \A s \in Symbols : Position(portfolio, s).quantity = NetTraded(s, Len(trades))

\* a position partly sold: BUY and SELL trades of the symbol, shares left,
\* and a rejected SELL that left no trade
C26_Witness ==
    /\ \E s \in DOMAIN portfolio :
          /\ portfolio[s].quantity > 0
          /\ \E i, j \in DOMAIN trades :
                /\ trades[i].symbol = s /\ trades[i].side = "SELL"
                /\ trades[j].symbol = s /\ trades[j].side = "BUY"
                /\ trades[j].qty > trades[i].qty
    /\ \E id \in DOMAIN orders : Rejected(tasks, id)

(***************************************************************************)
(* C27. In every state, whatever the interleaving of submissions and       *)
(* cancel requests: the trade history holds at most one trade per order    *)
(* id, the order of every trade has status EXECUTED, and every order with  *)
(* status EXECUTED whose submission is over has a trade (hence exactly     *)
(* one).                                                                   *)
(***************************************************************************)
C27_OneTradePerExecutedOrder ==
    /\ \A i, j \in DOMAIN trades : trades[i].id = trades[j].id => i = j
    /\ \A i \in DOMAIN trades :
          /\ trades[i].id \in DOMAIN orders
          /\ orders[trades[i].id].status = "EXECUTED"
    /\ \A id \in DOMAIN orders :
          orders[id].status = "EXECUTED" /\ tasks[id].pc = "done" => HasTrade(id)

(***************************************************************************)
(* C28. The current price of every simulated symbol is strictly positive   *)
(* in every state, whatever is drawn in any number of steps and after any  *)
(* re-seeding from a positive external quote; so is the price a step has   *)
(* read and divides by when it computes the change in percent.             *)
(***************************************************************************)
C28_PricePositive ==
    /\ \A s \in Symbols : current_prices[s] > 0
    /\ \A t \in Threads : stepping[t].pc # "idle" => stepping[t].current_price > 0

\* after steps that the floor of the clamp cut to half, twice at least, the
\* price has been re-seeded from the external quote and a step has read it
C28_Witness ==
    \E s \in PriceSymbols, t \in Threads :
        /\ Len(price_history[s]) > 1
        /\ 4 * price_history[s][Len(price_history[s])] <= base_prices[s]
        /\ current_prices[s] = base_prices[s]
        /\ stepping[t].pc = "read"
        /\ stepping[t].current_price = base_prices[s]

====
